---- MODULE Spec2Model ----
(***************************************************************************)
(* A model of hardware/component.py: the named-pipe channel (FIFOFile),    *)
(* the Component line protocol and lifecycle, the GPIOComponent and        *)
(* LoopedComponent extensions of the lifecycle, the polling thread, and    *)
(* the handler registry of EventedInput.                                   *)
(*                                                                         *)
(* Bytes and characters are their code points (integers); a byte string is *)
(* a sequence of them.  Numbers are held in tenths, so that 2.5 is 25 and  *)
(* the int 7 and the float 7.0 are told apart by their type tag only.      *)
(***************************************************************************)
EXTENDS Integers, Sequences, FiniteSets, TLC

\* ------------------------------------------------------------------ bounds

\* Bytes a pipe holds before a non-blocking write is refused or cut short.
PipeCap == 8
\* writedata calls made in one behaviour.
MaxWrites == 2
\* Messages of one external byte stream (SpecRead).
MaxMsgs == 3
\* Largest channel count and offset a component is constructed with.
MaxChannels == 2
MaxOffset == 1
\* The handler ids one registry issues.
MaxIds == 3

\* ------------------------------------------------------------- characters

LF == 10
COMMA == 44
DOT == 46
ZERO == 48
LetterA == 97
LetterB == 98

Digit(d) == ZERO + d
IsDigit(c) == c >= ZERO /\ c <= ZERO + 9

\* ------------------------------------------------------------ byte strings

Min(a, b) == IF a <= b THEN a ELSE b

Take(s, k) == SubSeq(s, 1, Min(k, Len(s)))
Drop(s, k) == SubSeq(s, Min(k, Len(s)) + 1, Len(s))

Contains(s, c) == \E i \in 1..Len(s) : s[i] = c

\* Index of the first c in s (0 when there is none).
IndexOf(s, c) ==
    IF Contains(s, c) THEN CHOOSE i \in 1..Len(s) : s[i] = c /\ \A j \in 1..(i - 1) : s[j] # c
    ELSE 0

\* bytes.partition(sep): the part before the first sep, and the part after it.
PartitionHead(s, c) == IF Contains(s, c) THEN SubSeq(s, 1, IndexOf(s, c) - 1) ELSE s
PartitionTail(s, c) == IF Contains(s, c) THEN SubSeq(s, IndexOf(s, c) + 1, Len(s)) ELSE <<>>

\* str.split(sep): the pieces between the separators, empty pieces kept.
RECURSIVE Split(_, _)
Split(s, c) ==
    IF Contains(s, c) THEN <<PartitionHead(s, c)>> \o Split(PartitionTail(s, c), c)
    ELSE <<s>>

\* sep.join(parts)
RECURSIVE Join(_, _)
Join(parts, c) ==
    IF Len(parts) = 0 THEN <<>>
    ELSE IF Len(parts) = 1 THEN parts[1]
    ELSE parts[1] \o <<c>> \o Join(Tail(parts), c)

\* --------------------------------------------------------- python values

\* A value handed to writedata: t is its type, n its number (tenths for a
\* float, the integer itself for an int), s its characters (a str), e its
\* elements (a tuple).
IntVal(k) == [t |-> "int", n |-> k, s |-> <<>>, e |-> <<>>]
FloatVal(tenths) == [t |-> "float", n |-> tenths, s |-> <<>>, e |-> <<>>]
StrVal(chars) == [t |-> "str", n |-> 0, s |-> chars, e |-> <<>>]
TupleVal(elems) == [t |-> "tuple", n |-> 0, s |-> <<>>, e |-> elems]
NoVal == [t |-> "none", n |-> 0, s |-> <<>>, e |-> <<>>]

\* str(int): the decimal digits.
RECURSIVE Digits(_)
Digits(k) == IF k < 10 THEN <<Digit(k)>> ELSE Digits(k \div 10) \o <<Digit(k % 10)>>

\* str(x) of a scalar: an int prints its digits, a float its digits, a point
\* and its fraction ("2.5", "7.0"), a str is itself.
Str(x) ==
    CASE x.t = "int" -> Digits(x.n)
      [] x.t = "float" -> Digits(x.n \div 10) \o <<DOT>> \o <<Digit(x.n % 10)>>
      [] OTHER -> x.s

\* hasattr(data, "__iter__"): true of a tuple, and of a str.
HasIter(x) == x.t \in {"tuple", "str"}

\* What iterating over data yields: a tuple's elements, a str's one-character
\* strings.
IterElems(x) ==
    IF x.t = "tuple" THEN x.e
    ELSE [i \in 1..Len(x.s) |-> StrVal(<<x.s[i]>>)]

\* A result of readdata, or of any call: tag names the kind of result (or the
\* exception raised), vals the floats returned, in tenths.
Result(tag, vals) == [tag |-> tag, vals |-> vals]
None == Result("None", <<>>)
Raised(exc) == Result(exc, <<>>)
IsFault(r) == r.tag \notin {"None", "float", "tuple", "int", "True", "False", "self"}

\* ------------------------------------------------------- the wire format

\* Lines 53-54: an object with __iter__ becomes the comma-joined text of its
\* elements; anything else is left for str() in line 56.
Serialize(data) ==
    IF HasIter(data)
    THEN Join([i \in 1..Len(IterElems(data)) |-> Str(IterElems(data)[i])], COMMA)
    ELSE Str(data)

\* str.encode(): UTF-8.  A code point below 128 is one byte, itself; one
\* below 2048 is two bytes.
RECURSIVE Encode(_)
Encode(text) ==
    IF Len(text) = 0 THEN <<>>
    ELSE (IF text[1] < 128 THEN <<text[1]>>
          ELSE <<192 + (text[1] \div 64), 128 + (text[1] % 64)>>) \o Encode(Tail(text))

\* Line 57: the bytes handed to the pipe's write().
WriteBytes(data) == Encode(Serialize(data)) \o <<LF>>

\* The value of a run of decimal digits.
RECURSIVE DigitsValue(_)
DigitsValue(ds) ==
    IF Len(ds) = 0 THEN 0
    ELSE 10 * DigitsValue(SubSeq(ds, 1, Len(ds) - 1)) + (ds[Len(ds)] - ZERO)

\* float(text) accepts digits with at most one point and at least one digit
\* (the model's alphabet has no sign, exponent or blank).
FloatOk(text) ==
    /\ Len(text) > 0
    /\ \A i \in 1..Len(text) : IsDigit(text[i]) \/ text[i] = DOT
    /\ Cardinality({i \in 1..Len(text) : text[i] = DOT}) <= 1
    /\ \E i \in 1..Len(text) : IsDigit(text[i])

\* float(text) in tenths; the texts of the model carry at most one digit
\* after the point.
FloatTenths(text) ==
    LET whole == PartitionHead(text, DOT)
        frac == PartitionTail(text, DOT)
    IN  10 * DigitsValue(whole) + (IF Len(frac) = 0 THEN 0 ELSE frac[1] - ZERO)

\* ParseLine without the branch of lines 66-67: every line is one float.
ParseLine_NoTuple(text) ==
    IF FloatOk(text) THEN Result("float", <<FloatTenths(text)>>) ELSE Raised("ValueError")

\* Lines 65-69: a line with a comma is a tuple of floats, any other a float.
ParseLine(text) ==
    IF Contains(text, COMMA)
    THEN LET parts == Split(text, COMMA)
         IN  IF \A i \in 1..Len(parts) : FloatOk(parts[i])
             THEN Result("tuple", [i \in 1..Len(parts) |-> FloatTenths(parts[i])])
             ELSE Raised("ValueError")
    ELSE IF FloatOk(text) THEN Result("float", <<FloatTenths(text)>>)
         ELSE Raised("ValueError")

\* ------------------------------------------------------------- variables

VARIABLES
    isGPIO,       \* the component's class derives from GPIOComponent
    isLooped,     \* the component's class mixes in LoopedComponent
    numchannels,  \* Component.__init__'s numchannels
    offset,       \* Component.__init__'s offset
    initialized,  \* Component.__initialized
    hasFifos,     \* whether the attribute Component.__fifos has been assigned
    fifos,        \* Component.__fifos: the list of FIFOFile objects
    readbuf,      \* Component.__readdata: channel -> bytes read, not yet returned
    nodes,        \* the file names present in BASE_DIR
    pins,         \* whether the GPIO pins are set up
    started,      \* LoopedComponent.__started
    bgpc,         \* where the polling thread is in runloop
    last,         \* the most recent call made by the caller, and its result
    nwrites,      \* writedata calls made so far
    scope,        \* the caller's position in a with statement on the component
    cycle,        \* the init/cleanup calls made since construction
    snap1,        \* the component as the first init() left it
    stream,       \* the messages another process writes to channel 0's pipe
    ext,          \* the bytes of them it has still to write
    got,          \* what the calls of readdata on that stream returned, None aside
    next_id,      \* EventedInput.__next_id
    handlers,     \* EventedInput.__handlers: key -> the dict of id -> callback
    ev,           \* the most recent call made on the registry, and its result
    issued        \* the ids add_handler has returned, in the order of the calls

vars == <<isGPIO, isLooped, numchannels, offset, initialized, hasFifos, fifos,
          readbuf, nodes, pins, started, bgpc, last, nwrites, scope, cycle,
          snap1, stream, ext, got, next_id, handlers, ev, issued>>

cfgVars == <<isGPIO, isLooped, numchannels, offset>>
streamVars == <<stream, ext, got>>
evVars == <<next_id, handlers, ev, issued>>

\* Component.__fn: the component's name (a class's _FN).
FN == "fn"

\* Line 48: range(offset, numchannels + offset).
Channels == offset..(numchannels + offset - 1)

\* The channel arguments a caller passes: every index of some component's
\* range.
ChanArgs == 0..(MaxChannels + MaxOffset - 1)

\* The component's attributes and the directory, as one record, which the
\* methods below take and return.
Self ==
    [initialized |-> initialized, hasFifos |-> hasFifos, fifos |-> fifos,
     readbuf |-> readbuf, nodes |-> nodes, pins |-> pins, started |-> started]

Commit(s) ==
    /\ initialized' = s.initialized
    /\ hasFifos' = s.hasFifos
    /\ fifos' = s.fifos
    /\ readbuf' = s.readbuf
    /\ nodes' = s.nodes
    /\ pins' = s.pins
    /\ started' = s.started

\* What a method leaves: the component after it, and what it returned or raised.
Ret(s, r) == [s |-> s, r |-> r]

\* ----------------------------------------------------------------- FIFOFile

\* Line 24: fn + str(num), in BASE_DIR.
FileName(fn, num) == [base |-> fn, suffix |-> Digits(num)]
NoFile == [base |-> "", suffix |-> <<>>]

\* Lines 25-28: os.unlink, a missing file ignored.
Unlink(dir, name) == dir \ {name}

\* Lines 30-31: os.mkfifo, which fails when the name exists, and the open,
\* read-write and non-blocking, of the new and empty pipe.
mkfifo(dir, name) ==
    IF name \in dir
    THEN [nodes |-> dir, file |-> [name |-> name, closed |-> TRUE, pipe |-> <<>>],
          exc |-> "FileExistsError"]
    ELSE [nodes |-> dir \cup {name},
          file |-> [name |-> name, closed |-> FALSE, pipe |-> <<>>], exc |-> ""]

\* FIFOFile_at as it would be without the unlink of lines 25-28.
FIFOFile_at_NoUnlink(dir, name) == mkfifo(dir, name)

\* Lines 25-31, for the file name of line 24.
FIFOFile_at(dir, name) == mkfifo(Unlink(dir, name), name)

\* Lines 23-32: FIFOFile(fn, num).
FIFOFile(dir, fn, num) == FIFOFile_at(dir, FileName(fn, num))

\* Lines 34-39: the handle is closed (closing twice is allowed) and the node
\* removed, a missing node ignored.
FIFOFile_close(dir, f) ==
    [nodes |-> Unlink(dir, f.name), file |-> [f EXCEPT !.closed = TRUE]]

\* A non-blocking write of bytes to a pipe holding `pipe`, of capacity cap:
\* the pipes the call can leave.  With room for all of it the write is whole;
\* without, the kernel takes nothing (EAGAIN, which the raw file reports by
\* returning None) or as much as fits.
PipeWrite(pipe, bytes, cap) ==
    IF Len(pipe) + Len(bytes) <= cap THEN {pipe \o bytes}
    ELSE {pipe, pipe \o Take(bytes, cap - Len(pipe))}

\* ---------------------------------------------------------------- Component

\* Lines 45-50: the component as constructed.
Constructed ==
    [initialized |-> FALSE, hasFifos |-> FALSE, fifos |-> <<>>,
     readbuf |-> [c \in ChanArgs |-> <<>>], nodes |-> {}, pins |-> FALSE,
     started |-> FALSE]

\* Lines 87-89: one FIFOFile per index of idxs, appended to the list in turn;
\* an exception leaves the list as far as it was built.
RECURSIVE OpenEach(_, _, _)
RECURSIVE OpenNext(_, _, _)
OpenEach(dir, idxs, built) ==
    IF Len(idxs) = 0 THEN [nodes |-> dir, fifos |-> built, exc |-> ""]
    ELSE OpenNext(FIFOFile(dir, FN, Head(idxs)), idxs, built)

\* Line 89: f, the FIFOFile made for the first of idxs, is appended.
OpenNext(f, idxs, built) ==
    IF f.exc # "" THEN [nodes |-> f.nodes, fifos |-> built, exc |-> f.exc]
    ELSE OpenEach(f.nodes, Tail(idxs), Append(built, f.file))

\* Line 85: the list of the one FIFOFile f.
Component_init_one(s, f) ==
    IF f.exc # "" THEN Ret([s EXCEPT !.nodes = f.nodes], Raised(f.exc))
    ELSE Ret([s EXCEPT !.nodes = f.nodes, !.hasFifos = TRUE, !.fifos = <<f.file>>], None)

\* Lines 87-89: the list o of the FIFOFiles of the channels.
Component_init_each(s, o) ==
    Ret([s EXCEPT !.nodes = o.nodes, !.hasFifos = TRUE, !.fifos = o.fifos],
        IF o.exc # "" THEN Raised(o.exc) ELSE None)

\* Lines 83-89: with fewer than two channels a single FIFOFile(fn), whose num
\* is the default 0; otherwise one per channel index.  The initialized flag
\* is not touched.
Component_init(s) ==
    IF numchannels < 2
    THEN Component_init_one(s, FIFOFile(s.nodes, FN, 0))
    ELSE Component_init_each(s, OpenEach(s.nodes, [i \in 1..numchannels |-> offset + i - 1],
                                         <<>>))

\* Lines 92-93: every FIFOFile of the list is closed.
RECURSIVE CloseEach(_, _, _)
RECURSIVE CloseNext(_, _, _)
CloseEach(dir, open, done) ==
    IF Len(open) = 0 THEN [nodes |-> dir, fifos |-> done]
    ELSE CloseNext(FIFOFile_close(dir, Head(open)), open, done)

\* Line 93: c, the first of the list closed.
CloseNext(c, open, done) == CloseEach(c.nodes, Tail(open), Append(done, c.file))

\* Line 94: the pipes closed (c), the flag is cleared.
Component_cleanup_closed(s, c) ==
    Ret([s EXCEPT !.nodes = c.nodes, !.fifos = c.fifos, !.initialized = FALSE], None)

\* Lines 91-94: without the attribute __fifos the loop raises; otherwise the
\* pipes are closed and the flag cleared.
Component_cleanup(s) ==
    IF ~s.hasFifos THEN Ret(s, Raised("AttributeError"))
    ELSE Component_cleanup_closed(s, CloseEach(s.nodes, s.fifos, <<>>))

\* Lines 73-78: quiet, the flag is returned; otherwise an unset flag raises.
checkInit(s, quiet) ==
    IF quiet THEN Ret(s, Result(IF s.initialized THEN "True" ELSE "False", <<>>))
    ELSE IF ~s.initialized THEN Ret(s, Raised("RuntimeError"))
    ELSE Ret(s, None)

\* Lines 80-81.
set_init(s) == [s EXCEPT !.initialized = TRUE]

\* What writedata leaves: the component, the result, the bytes handed to
\* write(), the file written to and the number of bytes the pipe took.
Written(s, r, bytes, file, taken) ==
    [s |-> s, r |-> r, bytes |-> bytes, file |-> file, taken |-> taken]

\* Line 57: write(bytes) on the FIFOFile at position i of the list, which
\* raises on a closed file; what write() returns is dropped.
FIFOFile_write(s, i, bytes) ==
    IF s.fifos[i].closed
    THEN {Written(s, Raised("ValueError"), bytes, s.fifos[i].name, 0)}
    ELSE {Written([s EXCEPT !.fifos[i].pipe = p], None, bytes, s.fifos[i].name,
                  Len(p) - Len(s.fifos[i].pipe)) :
            p \in PipeWrite(s.fifos[i].pipe, bytes, PipeCap)}

\* Line 57: self.__fifos[channel].write(bytes); the list is indexed by the
\* channel argument itself.
writebytes(s, bytes, channel) ==
    IF ~s.hasFifos THEN {Written(s, Raised("AttributeError"), bytes, NoFile, 0)}
    ELSE IF channel >= Len(s.fifos) THEN {Written(s, Raised("IndexError"), bytes, NoFile, 0)}
    ELSE FIFOFile_write(s, channel + 1, bytes)

\* Lines 52-57: the outcomes of writedata(data, channel).
writedata(s, data, channel) == writebytes(s, WriteBytes(data), channel)

\* bytes.decode(): UTF-8, the inverse of Encode; a byte that starts no
\* character decodes to no character the parser accepts (the decoder's
\* UnicodeDecodeError is a ValueError, as the parser's is).
RECURSIVE Decode(_)
Decode(bytes) ==
    IF Len(bytes) = 0 THEN <<>>
    ELSE IF bytes[1] < 128 THEN <<bytes[1]>> \o Decode(Tail(bytes))
    ELSE IF /\ Len(bytes) >= 2
            /\ bytes[1] >= 192 /\ bytes[1] < 224
            /\ bytes[2] >= 128 /\ bytes[2] < 192
         THEN <<(bytes[1] - 192) * 64 + (bytes[2] - 128)>> \o Decode(Drop(bytes, 2))
         ELSE <<-1>>

\* What readdata leaves: the component, the result and the file read.
Read(s, r, file) == [s |-> s, r |-> r, file |-> file]

\* Lines 63-71: with a line feed in the channel's buffer buf, the first line
\* is cut off it (before it is parsed) and its parse returned; without, None.
readline(s, channel, buf, file) ==
    IF Contains(buf, LF)
    THEN Read([s EXCEPT !.readbuf[channel] = PartitionTail(buf, LF)],
              ParseLine(Decode(PartitionHead(buf, LF))), file)
    ELSE Read([s EXCEPT !.readbuf[channel] = buf], None, file)

\* FIFOFile_read with "=" for the "+=" of line 62: the data read, when there
\* is any, overwrites what was buffered.
FIFOFile_read_Overwrite(s, channel, i) ==
    IF s.fifos[i].closed THEN Read(s, Raised("ValueError"), s.fifos[i].name)
    ELSE readline([s EXCEPT !.fifos[i].pipe = <<>>], channel,
                  IF Len(s.fifos[i].pipe) > 0 THEN s.fifos[i].pipe
                  ELSE s.readbuf[channel],
                  s.fifos[i].name)

\* Lines 60-62: read() on the FIFOFile at position i, which raises on a closed
\* file and otherwise returns all the pipe holds, which is added to the
\* channel's buffer.
FIFOFile_read(s, channel, i) ==
    IF s.fifos[i].closed THEN Read(s, Raised("ValueError"), s.fifos[i].name)
    ELSE readline([s EXCEPT !.fifos[i].pipe = <<>>], channel,
                  s.readbuf[channel] \o s.fifos[i].pipe, s.fifos[i].name)

\* Lines 59-71: readdata(channel); the list is indexed by the channel
\* argument itself.
readdata(s, channel) ==
    IF ~s.hasFifos THEN Read(s, Raised("AttributeError"), NoFile)
    ELSE IF channel >= Len(s.fifos) THEN Read(s, Raised("IndexError"), NoFile)
    ELSE FIFOFile_read(s, channel, channel + 1)

\* ------------------------------------------- GPIOComponent, LoopedComponent

\* Lines 196-197.
LoopedComponent_stop(s) == Ret([s EXCEPT !.started = FALSE], None)

\* Lines 192-194: start() raises on a component that is not initialized.
LoopedComponent_start(s) ==
    IF IsFault(checkInit(s, FALSE).r) THEN checkInit(s, FALSE)
    ELSE Ret([s EXCEPT !.started = TRUE], None)

\* Lines 136-138: after the base cleanup (c) the pins are released.
GPIOComponent_cleanup_pins(c) ==
    IF IsFault(c.r) THEN c ELSE Ret([c.s EXCEPT !.pins = FALSE], Result("True", <<>>))

\* Lines 132-138: nothing is done (and False returned) unless the flag is set;
\* otherwise the base cleanup, then the pins are released.
GPIOComponent_cleanup(s) ==
    IF checkInit(s, TRUE).r.tag # "True" THEN Ret(s, Result("False", <<>>))
    ELSE GPIOComponent_cleanup_pins(Component_cleanup(s))

\* Line 190: super().cleanup(), the cleanup of the next class.
LoopedComponent_super_cleanup(s) ==
    IF isGPIO THEN GPIOComponent_cleanup(s) ELSE Component_cleanup(s)

\* Lines 187-190: a started loop is stopped, then the next class's cleanup.
LoopedComponent_cleanup(s) ==
    LoopedComponent_super_cleanup(IF s.started THEN LoopedComponent_stop(s).s ELSE s)

\* self.cleanup(): the method of the component's class.
cleanup(s) ==
    IF isLooped THEN LoopedComponent_cleanup(s)
    ELSE IF isGPIO THEN GPIOComponent_cleanup(s)
    ELSE Component_cleanup(s)

\* Lines 117-130: after lines 110-115 (b) the pins are set up and the flag set.
GPIOComponent_init_pins(b) ==
    IF IsFault(b.r) THEN b ELSE Ret(set_init([b.s EXCEPT !.pins = TRUE]), None)

\* Lines 111-130: after the base init (a), self.cleanup() is called on a
\* component whose flag is already set.
GPIOComponent_init_opened(a) ==
    IF IsFault(a.r) THEN a
    ELSE IF checkInit(a.s, TRUE).r.tag = "True" THEN GPIOComponent_init_pins(cleanup(a.s))
    ELSE GPIOComponent_init_pins(a)

\* Lines 109-130: the base init opens the pipes first; then, on a component
\* whose flag is already set, self.cleanup() is called; then the pins are set
\* up and the flag is set.
GPIOComponent_init(s) == GPIOComponent_init_opened(Component_init(s))

\* Line 182: super().init(), the init of the next class.
LoopedComponent_super_init(s) ==
    IF isGPIO THEN GPIOComponent_init(s) ELSE Component_init(s)

\* Lines 183-185: after super().init() (a) the flag is set, and start() called
\* on request.
LoopedComponent_init_opened(a, autostart) ==
    IF IsFault(a.r) THEN a
    ELSE IF autostart THEN LoopedComponent_start(set_init(a.s))
    ELSE Ret(set_init(a.s), None)

\* Lines 181-185: the next class's init, the flag set, and start() on request.
LoopedComponent_init(s, autostart) ==
    LoopedComponent_init_opened(LoopedComponent_super_init(s), autostart)

\* self.init(): the method of the component's class (autostart is
\* LoopedComponent's parameter only).
init(s, autostart) ==
    IF isLooped THEN LoopedComponent_init(s, autostart)
    ELSE IF isGPIO THEN GPIOComponent_init(s)
    ELSE Component_init(s)

\* Line 98: return self, unless init() (a) raised.
Component_enter_return(a) == IF IsFault(a.r) THEN a ELSE Ret(a.s, Result("self", <<>>))

\* Lines 96-98: __enter__ calls init() and returns the component.
Component_enter(s) == Component_enter_return(init(s, FALSE))

\* Component_exit_return as "return self.cleanup()" would make it: what
\* cleanup() returned is returned.
Component_exit_return_Value(c) == c

\* Line 101: nothing is returned, unless cleanup() (c) raised.
Component_exit_return(c) == IF IsFault(c.r) THEN c ELSE Ret(c.s, None)

\* Lines 100-101: __exit__ calls cleanup() and returns nothing.
Component_exit(s) == Component_exit_return(cleanup(s))

\* The with statement: an exception of the body is swallowed only when
\* __exit__ returns something true.
Truthy(r) == r.tag \in {"True", "self"}

\* ------------------------------------------------------------------ calls

\* What a call finds: whether the flag is set, and whether the component has
\* pipes and all of them are open.
Before(s) ==
    [initialized |-> s.initialized,
     open |-> s.hasFifos /\ Len(s.fifos) > 0 /\ \A i \in 1..Len(s.fifos) : ~s.fifos[i].closed]

\* The record of a call: the method, its channel and data arguments, what it
\* returned or raised, for writedata and readdata the bytes handed to
\* write(), the file operated on and the bytes the pipe took, and what the
\* call found.
Log(op, ch, arg, res, bytes, file, taken) ==
    [op |-> op, ch |-> ch, arg |-> arg, res |-> res, bytes |-> bytes,
     file |-> file, taken |-> taken, pre |-> Before(Self)]

NoCall == Log("", 0, NoVal, None, <<>>, NoFile, 0)

\* What a caller can observe of the component: its flag, its pipes, its read
\* buffers and its files.
Observable(s) ==
    [initialized |-> s.initialized, hasFifos |-> s.hasFifos, fifos |-> s.fifos,
     readbuf |-> s.readbuf, nodes |-> s.nodes]

\* The init/cleanup calls since construction: init, cleanup, init leads from
\* "new" through "init1" and "clean1" to "init2"; any other order to "other".
CycleAfter(c, op) ==
    CASE c = "new" /\ op = "init" -> "init1"
      [] c = "init1" /\ op = "cleanup" -> "clean1"
      [] c = "clean1" /\ op = "init" -> "init2"
      [] OTHER -> "other"

Lifecycle(op, r) ==
    /\ cycle' = CycleAfter(cycle, op)
    /\ snap1' = IF CycleAfter(cycle, op) = "init1" THEN Observable(r.s) ELSE snap1

\* The caller calls init() (a LoopedComponent's with or without autostart).
CallInit(autostart) ==
    /\ autostart => isLooped
    /\ \E r \in {init(Self, autostart)} :
           /\ Commit(r.s)
           /\ last' = Log("init", 0, NoVal, r.r, <<>>, NoFile, 0)
           /\ Lifecycle("init", r)
    /\ UNCHANGED <<cfgVars, bgpc, nwrites, scope, streamVars, evVars>>

\* The caller calls cleanup().
CallCleanup ==
    /\ \E r \in {cleanup(Self)} :
           /\ Commit(r.s)
           /\ last' = Log("cleanup", 0, NoVal, r.r, <<>>, NoFile, 0)
           /\ Lifecycle("cleanup", r)
    /\ UNCHANGED <<cfgVars, bgpc, nwrites, scope, streamVars, evVars>>

\* The caller calls start() on a LoopedComponent.
CallStart ==
    /\ isLooped
    /\ \E r \in {LoopedComponent_start(Self)} :
           /\ Commit(r.s)
           /\ last' = Log("start", 0, NoVal, r.r, <<>>, NoFile, 0)
    /\ UNCHANGED <<cfgVars, bgpc, nwrites, scope, cycle, snap1, streamVars, evVars>>

\* The caller calls stop() on a LoopedComponent.
CallStop ==
    /\ isLooped
    /\ \E r \in {LoopedComponent_stop(Self)} :
           /\ Commit(r.s)
           /\ last' = Log("stop", 0, NoVal, r.r, <<>>, NoFile, 0)
    /\ UNCHANGED <<cfgVars, bgpc, nwrites, scope, cycle, snap1, streamVars, evVars>>

\* The caller calls writedata(data, channel).
CallWritedata(data, channel) ==
    /\ nwrites < MaxWrites
    /\ nwrites' = nwrites + 1
    /\ \E o \in writedata(Self, data, channel) :
          /\ Commit(o.s)
          /\ last' = Log("writedata", channel, data, o.r, o.bytes, o.file, o.taken)
    /\ UNCHANGED <<cfgVars, bgpc, scope, cycle, snap1, streamVars, evVars>>

\* The caller calls readdata(channel).
CallReaddata(channel) ==
    /\ \E o \in {readdata(Self, channel)} :
           /\ Commit(o.s)
           /\ last' = Log("readdata", channel, NoVal, o.r, <<>>, o.file, 0)
           /\ got' = IF Len(stream) = 0 \/ o.r = None THEN got ELSE Append(got, o.r)
    /\ UNCHANGED <<cfgVars, bgpc, nwrites, scope, cycle, snap1, stream, ext, evVars>>

\* The caller enters a with statement on the component: __enter__ is called
\* and what it returns is bound; an exception of __enter__ leaves the caller
\* outside.
Enter ==
    /\ scope.pc # "body"
    /\ \E r \in {Component_enter(Self)} :
           /\ Commit(r.s)
           /\ last' = Log("__enter__", 0, NoVal, r.r, <<>>, NoFile, 0)
           /\ Lifecycle("init", r)
           /\ scope' = IF IsFault(r.r) THEN [scope EXCEPT !.pc = "out"]
                       ELSE [pc |-> "body", yielded |-> r.r.tag, raised |-> FALSE,
                             propagated |-> FALSE]
    /\ UNCHANGED <<cfgVars, bgpc, nwrites, streamVars, evVars>>

\* The body of the with statement ends, by running to its end or by raising:
\* __exit__ is called, and the body's exception goes on to the caller unless
\* __exit__ returned something true.
Exit(raises) ==
    /\ scope.pc = "body"
    /\ \E r \in {Component_exit(Self)} :
           /\ Commit(r.s)
           /\ last' = Log("__exit__", 0, NoVal, r.r, <<>>, NoFile, 0)
           /\ Lifecycle("cleanup", r)
           /\ scope' = [scope EXCEPT !.pc = "left", !.raised = raises,
                                     !.propagated = IsFault(r.r) \/ (raises /\ ~Truthy(r.r))]
    /\ UNCHANGED <<cfgVars, bgpc, nwrites, streamVars, evVars>>

\* ------------------------------------------------------ the polling thread

objVars == <<initialized, hasFifos, fifos, readbuf, nodes, pins, started>>
callerVars == <<last, nwrites, scope, cycle, snap1, stream, ext, got>>

\* Line 201: the thread reads the started flag.
BgTest ==
    /\ bgpc = "test"
    /\ bgpc' = IF started THEN "call" ELSE "wait"
    /\ UNCHANGED <<cfgVars, objVars, callerVars, evVars>>

\* Line 202: having read the flag as true, the thread calls tick().
BgTickBegin ==
    /\ bgpc = "call"
    /\ bgpc' = "tick"
    /\ UNCHANGED <<cfgVars, objVars, callerVars, evVars>>

\* Line 202: tick() returns.
BgTickEnd ==
    /\ bgpc = "tick"
    /\ bgpc' = "wait"
    /\ UNCHANGED <<cfgVars, objVars, callerVars, evVars>>

\* Line 203: the wait is over, and the loop goes round.
BgWake ==
    /\ bgpc = "wait"
    /\ bgpc' = "test"
    /\ UNCHANGED <<cfgVars, objVars, callerVars, evVars>>

\* Line 202: tick() raises. runloop has no try around the call, so the
\* exception ends runloop, and with it the thread.
BgTickRaise ==
    /\ bgpc = "tick"
    /\ bgpc' = "dead"
    /\ UNCHANGED <<cfgVars, objVars, callerVars, evVars>>

\* ------------------------------------------------------------ EventedInput

\* The pins handlers are registered on and events come from: two of them,
\* numbered from 1; NoPin is the argument pin=None, GenericKey the key
\* "generic", which is no pin number.
Pins == {1, 2}
NoPin == 0
GenericKey == -1
Keys == {GenericKey} \cup Pins

\* The callbacks registered: one that returns, one that raises an Exception
\* (ValueError, say), and one that raises an exception that is no Exception
\* (SystemExit, as sys.exit() does).
Callbacks == {"returns", "raises", "exits"}

\* A dict, which keeps its keys in the order they were inserted in: a sequence
\* of entries. d[k] = v replaces the value of a key already there, in place.
DictHas(d, k) == \E i \in 1..Len(d) : d[i].k = k
DictSet(d, k, v) ==
    IF DictHas(d, k) THEN [i \in 1..Len(d) |-> IF d[i].k = k THEN [k |-> k, v |-> v] ELSE d[i]]
    ELSE Append(d, [k |-> k, v |-> v])
DictDel(d, k) == SelectSeq(d, LAMBDA entry : entry.k # k)

\* The registry's attributes as one record, which the methods below take and
\* return.
Registry == [next_id |-> next_id, handlers |-> handlers]

\* Lines 146-149: no id issued yet, and a defaultdict, in which a key not yet
\* used reads as an empty dict.
NewRegistry == [next_id |-> -1, handlers |-> [key \in Keys |-> <<>>]]

\* Lines 152-153: a pin is required unless the handler is generic.
get_handlers_raises(pin, generic) == pin = NoPin /\ ~generic

\* Line 154: the generic dict if generic, the pin's otherwise.
get_handlers_key(pin, generic) == IF generic THEN GenericKey ELSE pin

\* Lines 158-159: the callback is stored under the id just taken (e is the
\* registry after line 157), unless _get_handlers raises.
add_handler_store(e, callback, pin, generic) ==
    IF get_handlers_raises(pin, generic) THEN Ret(e, Raised("TypeError"))
    ELSE Ret([e EXCEPT !.handlers[get_handlers_key(pin, generic)] =
                           DictSet(@, e.next_id, callback)],
             Result("int", <<e.next_id>>))

\* Lines 156-159: the counter is incremented first.
add_handler(e, callback, pin, generic) ==
    add_handler_store([e EXCEPT !.next_id = @ + 1], callback, pin, generic)

\* remove_handler as it would be if the id were looked up in every dict of
\* the registry, not only in the one of the key given.
remove_handler_AnyKey(e, hid, pin, generic) ==
    IF get_handlers_raises(pin, generic) THEN Ret(e, Raised("TypeError"))
    ELSE IF \A key \in Keys : ~DictHas(e.handlers[key], hid) THEN Ret(e, Raised("KeyError"))
    ELSE Ret([e EXCEPT !.handlers = [key \in Keys |-> DictDel(e.handlers[key], hid)]], None)

\* Lines 161-162: del raises KeyError for an id that is not in the dict.
remove_handler(e, hid, pin, generic) ==
    IF get_handlers_raises(pin, generic) THEN Ret(e, Raised("TypeError"))
    ELSE IF ~DictHas(e.handlers[get_handlers_key(pin, generic)], hid)
         THEN Ret(e, Raised("KeyError"))
    ELSE Ret([e EXCEPT !.handlers[get_handlers_key(pin, generic)] = DictDel(@, hid)],
             None)

\* What _handle_pin has done: the entries whose callbacks it invoked, in
\* order, the tracebacks it printed, and what it returned or raised.
Handled(invoked, printed, res) == [invoked |-> invoked, printed |-> printed, res |-> res]

\* handle_each as a loop without the try statement would be: the first
\* exception of a callback leaves the loop and _handle_pin.
RECURSIVE handle_each_NoTry(_, _, _)
handle_each_NoTry(list, invoked, printed) ==
    IF Len(list) = 0 THEN Handled(invoked, printed, None)
    ELSE IF Head(list).v = "exits"
         THEN Handled(Append(invoked, Head(list)), printed, Raised("SystemExit"))
    ELSE IF Head(list).v = "raises"
         THEN Handled(Append(invoked, Head(list)), printed, Raised("ValueError"))
    ELSE handle_each_NoTry(Tail(list), Append(invoked, Head(list)), printed)

\* Lines 166-170: each callback of the list is called in turn; an Exception
\* it raises is caught and printed; any other exception leaves the loop and
\* _handle_pin.
RECURSIVE handle_each(_, _, _)
handle_each(list, invoked, printed) ==
    IF Len(list) = 0 THEN Handled(invoked, printed, None)
    ELSE IF Head(list).v = "exits"
         THEN Handled(Append(invoked, Head(list)), printed, Raised("SystemExit"))
    ELSE handle_each(Tail(list), Append(invoked, Head(list)),
                     IF Head(list).v = "raises" THEN printed + 1 ELSE printed)

\* handle_pin as it would be with the two lists of line 165-166 swapped: the
\* pin's handlers first.
handle_pin_PinFirst(e, pin) ==
    IF get_handlers_raises(pin, FALSE) THEN Handled(<<>>, 0, Raised("TypeError"))
    ELSE handle_each(e.handlers[get_handlers_key(pin, FALSE)]
                         \o e.handlers[get_handlers_key(NoPin, TRUE)], <<>>, 0)

\* Lines 164-170: the list is made of the generic dict's values, then the
\* pin's, before any callback is called.
handle_pin(e, pin) ==
    IF get_handlers_raises(pin, FALSE) THEN Handled(<<>>, 0, Raised("TypeError"))
    ELSE handle_each(e.handlers[get_handlers_key(NoPin, TRUE)]
                         \o e.handlers[get_handlers_key(pin, FALSE)], <<>>, 0)

\* The record of a call on the registry: the method, its arguments, what it
\* returned or raised, and for _handle_pin the entries invoked and the
\* tracebacks printed.
Event(op, hid, pin, generic, res, invoked, printed) ==
    [op |-> op, hid |-> hid, pin |-> pin, generic |-> generic,
     res |-> res, invoked |-> invoked, printed |-> printed]

NoEvent == Event("", 0, NoPin, FALSE, None, <<>>, 0)

\* The pin and generic arguments of a call of add_handler or remove_handler:
\* neither given, generic alone, a pin alone, and both.
KeyArgs == {<<NoPin, FALSE>>, <<NoPin, TRUE>>, <<1, TRUE>>} \cup {<<pin, FALSE>> : pin \in Pins}

\* A caller registers a callback, while ids are left in the model.
CallAddHandler(callback, pin, generic) ==
    /\ next_id + 1 < MaxIds
    /\ \E r \in {add_handler(Registry, callback, pin, generic)} :
           /\ next_id' = r.s.next_id
           /\ handlers' = r.s.handlers
           /\ ev' = Event("add_handler", 0, pin, generic, r.r, <<>>, 0)
           /\ issued' = IF IsFault(r.r) THEN issued ELSE Append(issued, r.r.vals[1])
    /\ UNCHANGED <<cfgVars, objVars, bgpc, callerVars>>

\* A caller removes the handler of an id.
CallRemoveHandler(hid, pin, generic) ==
    /\ \E r \in {remove_handler(Registry, hid, pin, generic)} :
           /\ next_id' = r.s.next_id
           /\ handlers' = r.s.handlers
           /\ ev' = Event("remove_handler", hid, pin, generic, r.r, <<>>, 0)
    /\ UNCHANGED <<cfgVars, objVars, bgpc, callerVars, issued>>

\* The driving extension reports activity on a pin.
HandlePin(pin) ==
    /\ \E h \in {handle_pin(Registry, pin)} :
           ev' = Event("_handle_pin", 0, pin, FALSE, h.res, h.invoked, h.printed)
    /\ UNCHANGED <<cfgVars, objVars, bgpc, callerVars, next_id, handlers, issued>>

\* Lines 146-149: the registry as constructed.
InitEvents ==
    /\ next_id = NewRegistry.next_id
    /\ handlers = NewRegistry.handlers
    /\ ev = NoEvent
    /\ issued = <<>>

\* ------------------------------------------------------------ specification

\* The data written in Spec: the number 1, whose line is "1\n".
LifeData == {IntVal(1)}

\* Lines 45-50 and 174-179: a component of any of the four classes, as
\* constructed; a LoopedComponent's thread is running from then on.
Init ==
    /\ isGPIO \in BOOLEAN
    /\ isLooped \in BOOLEAN
    /\ numchannels \in 1..MaxChannels
    /\ offset \in 0..MaxOffset
    /\ initialized = Constructed.initialized
    /\ hasFifos = Constructed.hasFifos
    /\ fifos = Constructed.fifos
    /\ readbuf = Constructed.readbuf
    /\ nodes = Constructed.nodes
    /\ pins = Constructed.pins
    /\ started = Constructed.started
    /\ bgpc = IF isLooped THEN "test" ELSE "none"
    /\ last = NoCall
    /\ nwrites = 0
    /\ scope = [pc |-> "out", yielded |-> "", raised |-> FALSE, propagated |-> FALSE]
    /\ cycle = "new"
    /\ snap1 = Observable(Constructed)
    /\ stream = <<>>
    /\ ext = <<>>
    /\ got = <<>>
    /\ InitEvents

Next ==
    \/ \E autostart \in BOOLEAN : CallInit(autostart)
    \/ CallCleanup
    \/ CallStart
    \/ CallStop
    \/ \E data \in LifeData, channel \in ChanArgs : CallWritedata(data, channel)
    \/ \E channel \in ChanArgs : CallReaddata(channel)
    \/ Enter
    \/ \E raises \in BOOLEAN : Exit(raises)

Spec == Init /\ [][Next]_vars

\* A LoopedComponent and its polling thread: the caller's lifecycle calls,
\* interleaved with the thread's steps.
InitLoop == Init /\ isLooped /\ numchannels = 1 /\ offset = 0

NextLoop ==
    \/ \E autostart \in BOOLEAN : CallInit(autostart)
    \/ CallCleanup
    \/ CallStart
    \/ CallStop
    \/ BgTest
    \/ BgTickBegin
    \/ BgTickEnd
    \/ BgTickRaise
    \/ BgWake

SpecLoop == InitLoop /\ [][NextLoop]_vars

\* The same under a fair scheduler: the thread, a daemon thread of the
\* interpreter, goes on to its next step whenever it has one, the wait of
\* line 203 ends, and a tick() that was called returns or raises.
SpecLoopFair ==
    /\ SpecLoop
    /\ WF_vars(BgTest)
    /\ WF_vars(BgTickBegin)
    /\ WF_vars(BgTickEnd \/ BgTickRaise)
    /\ WF_vars(BgWake)


\* An EventedInput's registry: handlers are registered and removed, with and
\* without the arguments the methods require, and pins report activity.
InitRegistry == Init /\ ~isGPIO /\ ~isLooped /\ numchannels = 1 /\ offset = 0

NextRegistry ==
    \/ \E callback \in Callbacks, key \in KeyArgs : CallAddHandler(callback, key[1], key[2])
    \/ \E hid \in 0..(MaxIds - 1), key \in KeyArgs : CallRemoveHandler(hid, key[1], key[2])
    \/ \E pin \in Pins : HandlePin(pin)

SpecRegistry == InitRegistry /\ [][NextRegistry]_vars

\* --------------------------------------------------- the protocol's values

\* The values written where the claims are about the serialized form: the
\* int 7, the float 2.5, the tuples (1, 2.5, 3), (5,) and (), and the strings
\* "ab" and "a".
ProtoData ==
    {IntVal(7), FloatVal(25),
     TupleVal(<<IntVal(1), FloatVal(25), IntVal(3)>>),
     TupleVal(<<IntVal(5)>>), TupleVal(<<>>),
     StrVal(<<LetterA, LetterB>>), StrVal(<<LetterA>>)}

\* A component of one channel, a Component or a GPIOComponent, as constructed.
InitProto == Init /\ ~isLooped /\ numchannels = 1 /\ offset = 0

NextProto ==
    \/ CallInit(FALSE)
    \/ CallCleanup
    \/ \E data \in ProtoData : CallWritedata(data, 0)
    \/ CallReaddata(0)

SpecProto == InitProto /\ [][NextProto]_vars

\* ------------------------------------------------ a stream from outside

\* A number as another process writes it: its text and its value in tenths.
One == [text |-> <<ZERO + 1>>, val |-> 10]
TwoPointFive == [text |-> <<ZERO + 2, DOT, ZERO + 5>>, val |-> 25]
Twelve == [text |-> <<ZERO + 1, ZERO + 2>>, val |-> 120]

\* The messages of the wire format that the streams are made of: 1, 2.5 and
\* the tuple 12,1.
StreamMsgs == {<<One>>, <<TwoPointFive>>, <<Twelve, One>>}

\* The bytes left after the last message of a stream: none, or the start of a
\* message that is never finished.
Fragments == {<<>>, <<ZERO + 7>>}

RECURSIVE SeqsUpTo(_, _)
SeqsUpTo(S, k) ==
    IF k = 0 THEN {<<>>}
    ELSE LET shorter == SeqsUpTo(S, k - 1)
         IN  shorter \cup {Append(q, x) : q \in shorter, x \in S}

\* The bytes of one message: its numbers' texts, comma-separated, and a line
\* feed.
MsgBytes(m) == Join([i \in 1..Len(m) |-> m[i].text], COMMA) \o <<LF>>

RECURSIVE StreamBytes(_)
StreamBytes(msgs) ==
    IF Len(msgs) = 0 THEN <<>> ELSE MsgBytes(Head(msgs)) \o StreamBytes(Tail(msgs))

\* Line 31: the pipe is a node of the file system that another process opens
\* and writes to, a chunk of k bytes at a time, as they fit.
ExtWrite(k) ==
    /\ hasFifos /\ Len(fifos) >= 1
    /\ ~fifos[1].closed /\ fifos[1].name \in nodes
    /\ k <= Len(ext)
    /\ Len(fifos[1].pipe) + k <= PipeCap
    /\ fifos' = [fifos EXCEPT ![1].pipe = @ \o Take(ext, k)]
    /\ ext' = Drop(ext, k)
    /\ UNCHANGED <<cfgVars, initialized, hasFifos, readbuf, nodes, pins, started,
                   bgpc, last, nwrites, scope, cycle, snap1, stream, got, evVars>>

\* A component of one channel after init(), and a stream of one to MaxMsgs
\* messages that another process is about to write to its pipe.
InitRead ==
    /\ isGPIO \in BOOLEAN
    /\ isLooped = FALSE
    /\ numchannels = 1
    /\ offset = 0
    /\ \E r \in {init(Constructed, FALSE)} :
           /\ initialized = r.s.initialized
           /\ hasFifos = r.s.hasFifos
           /\ fifos = r.s.fifos
           /\ readbuf = r.s.readbuf
           /\ nodes = r.s.nodes
           /\ pins = r.s.pins
           /\ started = r.s.started
           /\ last = [Log("init", 0, NoVal, r.r, <<>>, NoFile, 0)
                         EXCEPT !.pre = Before(Constructed)]
           /\ snap1 = Observable(r.s)
    /\ bgpc = "none"
    /\ nwrites = 0
    /\ scope = [pc |-> "out", yielded |-> "", raised |-> FALSE, propagated |-> FALSE]
    /\ cycle = "init1"
    /\ stream \in SeqsUpTo(StreamMsgs, MaxMsgs) \ {<<>>}
    /\ \E frag \in Fragments : ext = StreamBytes(stream) \o frag
    /\ got = <<>>
    /\ InitEvents

NextRead ==
    \/ \E k \in 1..PipeCap : ExtWrite(k)
    \/ CallReaddata(0)

SpecRead == InitRead /\ [][NextRead]_vars


\* ------------------------------------------------------------------ claims

\* What a message of the wire format reads as: one number as a float, several
\* as the tuple of their floats.
Expected(m) ==
    IF Len(m) = 1 THEN Result("float", <<m[1].val>>)
    ELSE Result("tuple", [i \in 1..Len(m) |-> m[i].val])

\* The bytes of the stream that no call has returned yet: buffered, in the
\* pipe, or still to be written.
Pending == readbuf[0] \o fifos[1].pipe \o ext

\* C1: however the stream's bytes are split into chunks, the calls of readdata
\* that return something return the stream's messages parsed, one each and in
\* order: the i-th result is the i-th message, no call signals a fault, a call
\* returns None only when no whole line is buffered, and the lines not yet
\* returned are exactly the ones still pending (none lost, none delivered
\* twice), so that once the stream is written and read out there are exactly
\* k results.
C1_Framing ==
    /\ Len(got) <= Len(stream)
    /\ \A i \in 1..Len(got) : got[i] = Expected(stream[i])
    /\ last.op = "readdata" => ~IsFault(last.res)
    /\ (last.op = "readdata" /\ last.res = None) => ~Contains(readbuf[0], LF)
    /\ \E frag \in Fragments :
          Pending = StreamBytes(SubSeq(stream, Len(got) + 1, Len(stream))) \o frag
    /\ (Len(ext) = 0 /\ ~Contains(Pending, LF)) => Len(got) = Len(stream)

\* C1's case: a stream of several messages has been written in chunks and
\* read out, a call having returned None on the way and the unfinished bytes
\* after the last message staying buffered.
C1_Witness ==
    /\ Len(stream) >= 2
    /\ Len(got) = Len(stream)
    /\ Len(ext) = 0
    /\ Len(readbuf[0]) > 0
    /\ last.op = "readdata" /\ last.res = None


\* Every pipe channel of the component is open (there are none before the
\* first init()).
AllOpen == hasFifos /\ Len(fifos) > 0 /\ \A i \in 1..Len(fifos) : ~fifos[i].closed

\* C2: after any sequence of init() and cleanup() calls, the initialized flag
\* is true exactly when all of the component's pipe channels are open.
C2_InitializedIffOpen == initialized <=> AllOpen

\* C3: the polling thread begins a tick() only while the started flag is true,
\* so none after stop() has returned and before the next start().
C3_TickOnlyWhileStarted == [][(bgpc # "tick" /\ bgpc' = "tick") => started]_vars

\* C4: a writedata call on a channel of an initialized component puts the
\* call's whole line (its serialized form and one line feed) on the pipe,
\* after the bytes of the calls before it.
C4_WritesInOrder ==
    [][(nwrites' = nwrites + 1 /\ initialized /\ AllOpen /\ last'.ch = 0)
        => fifos'[1].pipe = fifos[1].pipe \o WriteBytes(last'.arg)]_vars

\* The text the claims give a value: a scalar's own text form, a tuple's
\* elements' text forms, comma-joined.
ClaimedText(x) ==
    IF x.t = "tuple" THEN Join([i \in 1..Len(x.e) |-> Str(x.e[i])], COMMA)
    ELSE Str(x)

\* C5: writedata writes a scalar (a number or a string, of any length) as its
\* text form and one line feed, and only a non-scalar iterable as the
\* comma-joined text of its elements.
C5_ScalarAsText ==
    (last.op = "writedata" /\ ~IsFault(last.res)) => last.bytes = ClaimedText(last.arg) \o <<LF>>

IsNumber(x) == x.t \in {"int", "float"}
IsNumberTuple(x) == x.t = "tuple" /\ \A i \in 1..Len(x.e) : IsNumber(x.e[i])

\* A number as a float, in tenths.
AsFloat(x) == IF x.t = "int" THEN 10 * x.n ELSE x.n

\* The channel 0 holds the line of the writedata call just made and nothing
\* else, and the caller now calls readdata(0).
WriteThenRead ==
    /\ last.op = "writedata" /\ last.ch = 0 /\ ~IsFault(last.res)
    /\ AllOpen
    /\ fifos[1].pipe = last.bytes
    /\ readbuf[0] = <<>>
    /\ last'.op = "readdata" /\ last'.ch = 0

\* C6 as claimed: writedata of an iterable of n numbers, then readdata, returns
\* the tuple of the n values as floats, whatever n is; of a scalar number, the
\* number as one float.
C6_RoundTripAnyLength ==
    [][(WriteThenRead /\ (IsNumber(last.arg) \/ IsNumberTuple(last.arg)))
        => last'.res = IF IsNumber(last.arg) THEN Result("float", <<AsFloat(last.arg)>>)
                       ELSE Result("tuple", [i \in 1..Len(last.arg.e) |-> AsFloat(last.arg.e[i])])
      ]_vars

\* C6, amended: writedata of an iterable of two or more numbers, then readdata,
\* returns the tuple of the values, in order, as floats; of a scalar number,
\* the number as one float.
C6_RoundTrip ==
    [][(WriteThenRead /\ (IsNumber(last.arg) \/ (IsNumberTuple(last.arg) /\ Len(last.arg.e) >= 2)))
        => last'.res = IF IsNumber(last.arg) THEN Result("float", <<AsFloat(last.arg)>>)
                       ELSE Result("tuple", [i \in 1..Len(last.arg.e) |-> AsFloat(last.arg.e[i])])
      ]_vars

\* C6's case: (1, 2.5, 3) was written to the empty channel and the readdata
\* after it has returned (1.0, 2.5, 3.0).
C6_Witness ==
    /\ last.op = "readdata"
    /\ last.res = Result("tuple", <<10, 25, 30>>)
    /\ nwrites = 1

\* C7: readdata and writedata on a component that is not initialized signal
\* the usage fault of _checkInit, and no byte goes to or comes from a pipe.
C7_UseChecked ==
    (last.op \in {"readdata", "writedata"} /\ ~initialized)
        => (last.res.tag = "RuntimeError" /\ last.taken = 0)

\* C8: right after the init() of init(), cleanup(), init(), the component is
\* what the first init() left: the same files, open and empty pipes, and
\* nothing buffered, whatever was written and read in between.
C8_ReinitAsFirst ==
    (cycle = "init2" /\ last.op \in {"init", "__enter__"}) => Observable(Self) = snap1

\* C9: entering the scope changes the component as one init() does and yields
\* the component; leaving it, by the end of the body or by an exception,
\* changes the component as one cleanup() does, and an exception of the body
\* goes on to the caller.
C9_Scoped ==
    [][/\ (scope.pc # "body" /\ scope'.pc = "body")
            => (Self' = init(Self, FALSE).s /\ scope'.yielded = "self")
       /\ (scope.pc = "body" /\ scope'.pc = "left")
            => (Self' = cleanup(Self).s /\ scope'.propagated = scope'.raised)
      ]_vars

\* C9's case: the body of a with statement on a GPIOComponent raised, the
\* pipes are closed and the exception went on.
C9_Witness ==
    /\ scope.pc = "left" /\ scope.raised /\ scope.propagated
    /\ isGPIO /\ last.op = "__exit__" /\ last.res = None
    /\ ~initialized /\ ~AllOpen

\* The file names the claim gives the channels: the bare name for a single
\* channel, the name and the channel's index otherwise.
ClaimedName(c) ==
    IF numchannels = 1 THEN [base |-> FN, suffix |-> <<>>]
    ELSE [base |-> FN, suffix |-> Digits(c)]

\* C10: the first init() makes one pipe per channel, named without a suffix
\* when there is one channel and with the suffixes offset, ..., offset + n - 1
\* otherwise; readdata and writedata with a channel index of the component's
\* range work on the pipe of that index.
C10_ChannelFiles ==
    /\ (cycle = "init1" /\ last.op = "init")
          => nodes = {ClaimedName(c) : c \in Channels}
    /\ (last.op \in {"readdata", "writedata"} /\ last.ch \in Channels /\ AllOpen)
          => last.file = ClaimedName(last.ch)

\* The handlers registered under a key, as a set, and how many times an entry
\* occurs in a sequence of invocations.
RegisteredUnder(key) == {handlers[key][i] : i \in 1..Len(handlers[key])}
Times(entry, invoked) == Cardinality({i \in 1..Len(invoked) : invoked[i] = entry})

\* Ids are issued in increasing order, so the order of registration is the
\* order of the ids.
InRegistrationOrder(invoked, from, to) ==
    \A i \in from..to, j \in from..to : i < j => invoked[i].k < invoked[j].k

\* The handlers due for an event on a pin, each invoked exactly once and no
\* other handler invoked.
EachDueOnce(pin, invoked) ==
    /\ \A entry \in RegisteredUnder(GenericKey) \cup RegisteredUnder(pin) :
           Times(entry, invoked) = 1
    /\ \A i \in 1..Len(invoked) :
           invoked[i] \in RegisteredUnder(GenericKey) \cup RegisteredUnder(pin)

\* C11: when _handle_pin(pin) returns it has invoked the handlers registered
\* under the generic key, in the order they were registered in, and then the
\* handlers registered under that pin, in the order they were registered in,
\* and no handler registered under another pin.
C11_GenericThenPin ==
    (ev.op = "_handle_pin" /\ ~IsFault(ev.res)) =>
        /\ EachDueOnce(ev.pin, ev.invoked)
        /\ \A i \in 1..Len(ev.invoked) :
               (i <= Len(handlers[GenericKey])) <=> (ev.invoked[i] \in RegisteredUnder(GenericKey))
        /\ InRegistrationOrder(ev.invoked, 1, Len(handlers[GenericKey]))
        /\ InRegistrationOrder(ev.invoked, Len(handlers[GenericKey]) + 1, Len(ev.invoked))

\* An event on a pin with a handler of its own, a generic handler registered
\* after it and invoked before it, and a handler on the other pin.
C11_Witness ==
    /\ ev.op = "_handle_pin" /\ ev.res = None
    /\ Len(ev.invoked) = 2
    /\ ev.invoked[1] \in RegisteredUnder(GenericKey)
    /\ ev.invoked[1].k > ev.invoked[2].k
    /\ \E pin \in Pins \ {ev.pin} : RegisteredUnder(pin) # {}

\* The callbacks of the handlers due for the last event.
DueCallbacks == {entry.v : entry \in RegisteredUnder(GenericKey) \cup RegisteredUnder(ev.pin)}

KeysOf(hid) == {key \in Keys : DictHas(handlers[key], hid)}

\* C13: over any sequence of add_handler and remove_handler calls, failing
\* ones included, add_handler never returns an id it has returned before, the
\* first id it returns is zero, and no id is registered under two keys (or
\* twice under one).
C13_FreshIds ==
    /\ \A i \in 1..Len(issued), j \in 1..Len(issued) : i # j => issued[i] # issued[j]
    /\ Len(issued) > 0 => issued[1] = 0
    /\ \A hid \in 0..MaxIds :
           /\ Cardinality(KeysOf(hid)) <= 1
           /\ \A key \in Keys : Times(hid, [i \in 1..Len(handlers[key]) |-> handlers[key][i].k]) <= 1

\* The key a call names: the generic key if generic is given, the pin
\* otherwise (NoPin, which is no key, if neither is given).
GivenKey(call) == IF call.generic THEN GenericKey ELSE call.pin

\* C14: remove_handler(id, pin, generic) removes the handler of that id under
\* the key given and leaves every other handler where it is, in its place;
\* when the id is not registered under that key (registered under another key
\* or under none) it raises and no handler is removed.
C14_RemoveExactly ==
    [][(ev'.op = "remove_handler") =>
          IF GivenKey(ev') \in KeysOf(ev'.hid)
          THEN /\ ev'.res = None
               /\ handlers' = [handlers EXCEPT ![GivenKey(ev')] =
                                  SelectSeq(@, LAMBDA entry : entry.k # ev'.hid)]
               /\ Len(handlers'[GivenKey(ev')]) = Len(handlers[GivenKey(ev')]) - 1
          ELSE /\ ev'.res.tag \in {"KeyError", "TypeError"}
               /\ handlers' = handlers]_vars

\* A removal that named a key the id is not under, while the id is registered
\* under another key, and raised.
C14_Witness ==
    /\ ev.op = "remove_handler" /\ ev.res = Raised("KeyError")
    /\ KeysOf(ev.hid) # {}
    /\ GivenKey(ev) \in Keys \ KeysOf(ev.hid)

\* C15: start() on a LoopedComponent that is not initialized raises the usage
\* fault of _checkInit and leaves the started flag false, and no tick() begins
\* after it; start() on an initialized component returns with the flag true.
C15_StartChecked ==
    [][/\ (last'.op = "start" /\ IsFault(last'.res)) =>
              (last'.res = Raised("RuntimeError") /\ ~initialized' /\ ~started')
       /\ (last'.op = "start" /\ ~IsFault(last'.res)) => (initialized' /\ started')
       /\ (last.op = "start" /\ IsFault(last.res) /\ last' = last) =>
              ~(bgpc # "tick" /\ bgpc' = "tick")]_vars

\* C16: the polling thread of a LoopedComponent is alive, somewhere in its
\* loop, in every reachable state, whatever calls are made and whatever
\* tick() does.
C16_ThreadAlive == isLooped => bgpc \in {"test", "call", "tick", "wait"}

\* C17: once the started flag is set and stays set (no stop() and no
\* cleanup() follows), tick() is called again and again; there is one
\* thread, so one tick() at a time.
C17_TicksForever == (<>[]started) => ([]<>(bgpc = "tick") /\ []<>(bgpc # "tick"))

\* C20: no tick() is in progress, and none begins, while the component is
\* uninitialized or a pipe channel of it is closed.
C20_NoTickWhileClosed == (bgpc = "tick") => (initialized /\ AllOpen)

\* The component is a plain Component, and the last call was an init() that
\* found the pipes of an earlier init() open.
SecondBaseInit == ~isGPIO /\ ~isLooped /\ last.op = "init" /\ last.pre.open

\* Every pipe of the component has its file in the directory.
AllNodesPresent == \A i \in 1..Len(fifos) : fifos[i].name \in nodes

\* C18 as claimed: a second Component.init() without a cleanup() in between
\* fails when the file is created, because the file of the first init()
\* exists.
C18_SecondInitFails == SecondBaseInit => last.res = Raised("FileExistsError")

\* C18: a second Component.init() without a cleanup() in between does not
\* fail: the file of each channel is removed and created anew, and the
\* component has new, empty pipes, open, on the same file names.
C18_SecondInitReplaces ==
    SecondBaseInit =>
        /\ last.res = None
        /\ AllOpen /\ AllNodesPresent
        /\ Len(fifos) = numchannels
        /\ Cardinality(nodes) = numchannels
        /\ \A i \in 1..Len(fifos) : fifos[i].pipe = <<>>

\* A second init() after a line was written to a pipe of the first.
C18_Witness ==
    /\ SecondBaseInit /\ last.res = None /\ AllOpen
    /\ nwrites > 0 /\ numchannels = MaxChannels

\* C19: when GPIOComponent.init() returns from a call on a component that was
\* initialized already, the component is initialized, every pipe channel is
\* open with its file present, and readdata works on them.
C19_ReinitSafe ==
    (isGPIO /\ last.op = "init" /\ last.pre.initialized) =>
        /\ last.res = None
        /\ initialized
        /\ AllOpen /\ AllNodesPresent
        /\ offset = 0 => ~IsFault(readdata(Self, 0).r)

====
